---- MODULE Spec2Model ----
(***************************************************************************)
(* Letrador: the App component of src/index.tsx as a state machine.        *)
(*                                                                         *)
(* One action per event the component reacts to (a user gesture, a tick    *)
(* of the scroll interval, the reply of the lyrics lookup).  An action is  *)
(* the handler together with the render and the effects React runs for it: *)
(* the save effect (lines 49-55) and the scroll effect (lines 57-103).     *)
(* Mounting is modelled step by step (pc), because its effects run in      *)
(* order against the state of the first render.                            *)
(*                                                                         *)
(* Strings are sequences of one-character strings, so that split, trim,    *)
(* JSON.stringify and JSON.parse are computed, not assumed.                *)
(***************************************************************************)
EXTENDS Integers, Sequences, FiniteSets

VARIABLES
  pc,               \* position in the mount sequence, "ready" afterwards
  apiKey,           \* process.env.VITE_API_KEY || process.env.API_KEY is set
  storage,          \* localStorage entry 'lyrics-favorites'
  queued,           \* setFavorites(...) queued by the load effect, not yet rendered
  searchTerm, lyrics, isLoading, error, initialState, favorites, view, sources,
  isScrolling, scrollSpeed, currentLineIndex, isConfigError,
  scrollTop,        \* lyricsContainerRef.current.scrollTop (0 when not mounted)
  scrollInterval,   \* the interval of the scroll effect and the element it captured
  intervalPeriod,   \* the delay that interval was created with (0 without one)
  inFlight          \* searchTerm captured by each handleSearch awaiting its reply

vars == <<pc, apiKey, storage, queued, searchTerm, lyrics, isLoading, error,
          initialState, favorites, view, sources, isScrolling, scrollSpeed,
          currentLineIndex, isConfigError, scrollTop, scrollInterval,
          intervalPeriod, inFlight>>

----------------------------------------------------------------------------
(* Bounds of the model *)

\* longest lyrics text, in lines
MaxLines == 3
\* favorites are added only while the collection is shorter than this
MaxFavorites == 2
\* offsetHeight of one rendered line
LineHeight == 2
\* clientHeight of the lyrics container
ClientHeight == 3

(* Program constants *)
MinSpeed == 1
MaxSpeed == 10
DefaultSpeed == 3
\* the interval's delay is BasePeriod - scrollSpeed * PeriodStep
BasePeriod == 150
PeriodStep == 12
NoLine == -1

----------------------------------------------------------------------------
(* Characters and strings *)

NL == "\n"
QUOTE == "\""
BSLASH == "\\"
Whitespace == {" ", NL}

\* the songs a user asks for
Songs == {"a"}
\* values the search input can take
TermInputs == {<<>>, <<" ">>} \cup {<<s>> : s \in Songs}
\* positions of the speed slider the user moves to
SpeedInputs == {MinSpeed, MaxSpeed}

RECURSIVE Repeat(_, _)
\* n lines, each holding the character c, joined by line breaks
Repeat(c, n) == IF n <= 1 THEN <<c>> ELSE <<c, NL>> \o Repeat(c, n - 1)

\* the lyrics texts the lookup can return for a song: a short and a long one
LyricsFor(song) == {Repeat(song, 1), Repeat(song, MaxLines)}

RECURSIVE TrimStart(_)
TrimStart(s) ==
  IF s # <<>> /\ Head(s) \in Whitespace THEN TrimStart(Tail(s)) ELSE s

RECURSIVE TrimEnd(_)
TrimEnd(s) ==
  IF s # <<>> /\ s[Len(s)] \in Whitespace
    THEN TrimEnd(SubSeq(s, 1, Len(s) - 1)) ELSE s

\* String.prototype.trim
\* trim() that removes nothing
TrimNothing(s) == s

\* String.prototype.trim
Trim(s) == TrimEnd(TrimStart(s))

\* String.prototype.startsWith
StartsWith(s, p) == Len(s) >= Len(p) /\ SubSeq(s, 1, Len(p)) = p

RECURSIVE SplitFrom(_, _, _)
SplitFrom(s, i, cur) ==
  IF i > Len(s) THEN <<cur>>
  ELSE IF s[i] = NL THEN <<cur>> \o SplitFrom(s, i + 1, <<>>)
  ELSE SplitFrom(s, i + 1, Append(cur, s[i]))

\* lyrics.split('\n')
Split(s) == SplitFrom(s, 1, <<>>)

----------------------------------------------------------------------------
(* JSON.stringify and JSON.parse, over sequences of characters.  A key is   *)
(* written as one character ("term", "lyrics", "error").                    *)

RECURSIVE EscapeString(_)
EscapeString(s) ==
  IF s = <<>> THEN <<>>
  ELSE (IF Head(s) = NL THEN <<BSLASH, "n">>
        ELSE IF Head(s) \in {QUOTE, BSLASH} THEN <<BSLASH, Head(s)>>
        ELSE <<Head(s)>>) \o EscapeString(Tail(s))

QuoteString(s) == <<QUOTE>> \o EscapeString(s) \o <<QUOTE>>

StringifyMember(key, value) == QuoteString(<<key>>) \o <<":">> \o QuoteString(value)

StringifyFavorite(f) ==
  <<"{">> \o StringifyMember("term", f.term) \o <<",">>
          \o StringifyMember("lyrics", f.lyrics) \o <<"}">>

RECURSIVE StringifyItems(_)
StringifyItems(favs) ==
  IF favs = <<>> THEN <<>>
  ELSE IF Len(favs) = 1 THEN StringifyFavorite(favs[1])
  ELSE StringifyFavorite(favs[1]) \o <<",">> \o StringifyItems(Tail(favs))

\* JSON.stringify(favorites)
Stringify(favs) == <<"[">> \o StringifyItems(favs) \o <<"]">>

\* the result of a parsing step: ok, the value read, the next position
Failed == [ok |-> FALSE, str |-> <<>>, members |-> <<>>, items |-> <<>>, next |-> 0]

RECURSIVE ReadChars(_, _, _)
\* the characters of a string literal up to its closing quote
ReadChars(t, i, acc) ==
  IF i > Len(t) THEN Failed
  ELSE IF t[i] = QUOTE THEN [Failed EXCEPT !.ok = TRUE, !.str = acc, !.next = i + 1]
  ELSE IF t[i] = BSLASH THEN
    IF i + 1 > Len(t) THEN Failed
    ELSE IF t[i + 1] = "n" THEN ReadChars(t, i + 2, Append(acc, NL))
    ELSE IF t[i + 1] \in {QUOTE, BSLASH} THEN ReadChars(t, i + 2, Append(acc, t[i + 1]))
    ELSE Failed
  ELSE IF t[i] = NL THEN Failed      \* a raw control character is a syntax error
  ELSE ReadChars(t, i + 1, Append(acc, t[i]))

ParseString(t, i) ==
  IF i <= Len(t) /\ t[i] = QUOTE THEN ReadChars(t, i + 1, <<>>) ELSE Failed

\* the digits a number literal is written with
Digits == {"0", "7"}
\* A number is held as its digit after this mark, which no string contains.
NUM == "#"

\* the value is a string (a number is not)
IsText(v) == v = <<>> \/ v[1] # NUM
\* the value converts to true: a non-empty string, a number other than 0
Truthy(v) == v # <<>> /\ v # <<NUM, "0">>

\* a member's value: a string literal or a one-digit number literal
ParseValue(t, i) ==
  IF i <= Len(t) /\ t[i] \in Digits
    THEN [Failed EXCEPT !.ok = TRUE, !.str = <<NUM, t[i]>>, !.next = i + 1]
    ELSE ParseString(t, i)

RECURSIVE ParseMembers(_, _, _)
\* "key":"value" pairs separated by commas, up to the closing brace
ParseMembers(t, i, acc) ==
  LET k == ParseString(t, i) IN
  IF ~k.ok \/ k.next > Len(t) \/ t[k.next] # ":" THEN Failed
  ELSE LET v == ParseValue(t, k.next + 1)
           got == Append(acc, [key |-> k.str, value |-> v.str])
       IN IF ~v.ok \/ v.next > Len(t) THEN Failed
          ELSE IF t[v.next] = "}"
            THEN [Failed EXCEPT !.ok = TRUE, !.members = got, !.next = v.next + 1]
          ELSE IF t[v.next] = "," THEN ParseMembers(t, v.next + 1, got)
          ELSE Failed

ParseObject(t, i) ==
  IF i + 1 > Len(t) \/ t[i] # "{" THEN Failed
  ELSE IF t[i + 1] = "}" THEN [Failed EXCEPT !.ok = TRUE, !.next = i + 2]
  ELSE ParseMembers(t, i + 1, <<>>)

RECURSIVE ParseItems(_, _, _)
\* objects separated by commas, up to the closing bracket
ParseItems(t, i, acc) ==
  LET o == ParseObject(t, i)
      got == Append(acc, o.members)
  IN IF ~o.ok \/ o.next > Len(t) THEN Failed
     ELSE IF t[o.next] = "]"
       THEN [Failed EXCEPT !.ok = TRUE, !.items = got, !.next = o.next + 1]
     ELSE IF t[o.next] = "," THEN ParseItems(t, o.next + 1, got)
     ELSE Failed

ParseArray(t, i) ==
  IF i + 1 > Len(t) \/ t[i] # "[" THEN Failed
  ELSE IF t[i + 1] = "]" THEN [Failed EXCEPT !.ok = TRUE, !.next = i + 2]
  ELSE ParseItems(t, i + 1, <<>>)

\* JSON.parse(t): kind "error" when it throws a SyntaxError
JSONParse(t) ==
  LET tagged(kind, r) ==
        IF r.ok /\ r.next = Len(t) + 1
          THEN [kind |-> kind, str |-> r.str, members |-> r.members, items |-> r.items]
          ELSE [kind |-> "error", str |-> <<>>, members |-> <<>>, items |-> <<>>]
  IN IF t = <<>> THEN tagged("error", Failed)
     ELSE IF t = <<"null">> THEN tagged("null", [Failed EXCEPT !.ok = TRUE, !.next = 2])
     ELSE IF t[1] = QUOTE THEN tagged("string", ParseString(t, 1))
     ELSE IF t[1] = "{" THEN tagged("object", ParseObject(t, 1))
     ELSE IF t[1] = "[" THEN tagged("array", ParseArray(t, 1))
     ELSE tagged("error", Failed)

RECURSIVE Field(_, _)
\* object[key]: the value of the last member with that key, <<>> when there is
\* none (undefined and '' are both falsy where the program reads a field)
Field(members, key) ==
  IF members = <<>> THEN <<>>
  ELSE IF members[Len(members)].key = <<key>> THEN members[Len(members)].value
  ELSE Field(SubSeq(members, 1, Len(members) - 1), key)

HasField(members, key) == \E i \in DOMAIN members : members[i].key = <<key>>

----------------------------------------------------------------------------
(* The favorites collection *)

\* the Favorite record of a parsed object
ToFavorite(members) ==
  [term |-> Field(members, "term"), lyrics |-> Field(members, "lyrics")]

ToFavorites(items) == [i \in DOMAIN items |-> ToFavorite(items[i])]

\* isFavorite finding no term
IsFavoriteNever(favs, term) == FALSE

\* isFavorite: favorites.some(fav => fav.term === term)
IsFavorite(favs, term) == \E i \in DOMAIN favs : favs[i].term = term

RECURSIVE Filter(_, _)
\* favorites.filter(fav => fav.term !== term)
Filter(favs, term) ==
  IF favs = <<>> THEN <<>>
  ELSE IF Head(favs).term # term THEN <<Head(favs)>> \o Filter(Tail(favs), term)
  ELSE Filter(Tail(favs), term)

\* toggleFavorite forgetting to remove the term it finds
ToggleFavoriteNoRemove(favs, term, lyr) ==
  IF term = <<>> \/ lyr = <<>> THEN favs
  ELSE IF IsFavorite(favs, term) THEN favs
  ELSE Append(favs, [term |-> term, lyrics |-> lyr])

\* the collection toggleFavorite passes to setFavorites
ToggleFavoriteResult(favs, term, lyr) ==
  IF term = <<>> \/ lyr = <<>> THEN favs
  ELSE IF IsFavorite(favs, term) THEN Filter(favs, term)
  ELSE Append(favs, [term |-> term, lyrics |-> lyr])

\* the collection removeFavorite passes to setFavorites
RemoveFavoriteResult(favs, termToRemove) == Filter(favs, termToRemove)

\* the set of {term, lyrics} pairs of a collection
Pairs(favs) == {favs[i] : i \in DOMAIN favs}

----------------------------------------------------------------------------
(* localStorage *)

Absent == [exists |-> FALSE, text |-> <<>>]
Stored(text) == [exists |-> TRUE, text |-> text]

Fav(term, song, n) == [term |-> <<term>>, lyrics |-> Repeat(song, n)]

\* what the entry may hold when the page is opened
BootEntries ==
  { Absent,
    Stored(Stringify(<<>>)),
    Stored(Stringify(<<Fav("a", "a", MaxLines)>>)),
    Stored(Stringify(<<Fav(" ", "a", 1), Fav("a", "a", MaxLines)>>)),
    Stored(Stringify(<<Fav("a", "a", 1), Fav("a", "a", MaxLines)>>)),
    Stored(<<"[", "{">>),
    Stored(<<"null">>) }

NothingQueued == [kind |-> "none", items |-> <<>>]

\* the load effect's try block: the update it queues with setFavorites
LoadFavorites(entry) ==
  IF ~entry.exists \/ entry.text = <<>> THEN NothingQueued
  ELSE LET v == JSONParse(entry.text) IN
       CASE v.kind = "error" -> NothingQueued
         [] v.kind = "array" -> [kind |-> "array", items |-> ToFavorites(v.items)]
         [] v.kind = "null"  -> [kind |-> "null", items |-> <<>>]

\* the save effect: localStorage.setItem('lyrics-favorites', JSON.stringify(favorites))
SaveFavorites(favs) == Stored(Stringify(favs))

\* the save effect with an empty dependency list: it runs at mount only
SaveEffectAtMountOnly(entry, wasSet, favs) == entry

\* the entry after a render: the save effect runs when favorites was set
SaveEffect(entry, wasSet, favs) == IF wasSet THEN SaveFavorites(favs) ELSE entry

----------------------------------------------------------------------------
(* The lyrics container and the scroll effect *)

Max(a, b) == IF a >= b THEN a ELSE b
Min(a, b) == IF a <= b THEN a ELSE b

\* number of <p> children of the container
LineCount(text) == Len(Split(text))

\* el.scrollHeight of the mounted container
ScrollHeight(text) == Max(LineCount(text) * LineHeight, ClientHeight)

\* largest scrollTop the container takes
MaxScrollTop(text) == ScrollHeight(text) - ClientHeight

\* line.offsetTop of the line at index i
OffsetTop(i) == i * LineHeight

\* the container is rendered, so lyricsContainerRef.current is set
Mounted(cfgError, v, text) == ~cfgError /\ v = "search" /\ text # <<>>

\* rendering the lyrics block throws: lyrics.split is not a function
RenderCrashes(cfgError, v, text) == Mounted(cfgError, v, text) /\ ~IsText(text)

\* the boundary test with > for >=
AtBoundaryStrict(top, scrollHeight, clientHeight) == top > scrollHeight - clientHeight

\* el.scrollTop >= el.scrollHeight - el.clientHeight
AtBoundary(top, scrollHeight, clientHeight) == top >= scrollHeight - clientHeight

\* the active-zone test with < for >
InActiveZoneBelow(i, top) == 4 * (OffsetTop(i) + LineHeight) < 4 * top + ClientHeight

\* line.offsetTop + line.offsetHeight > activeZone, with
\* activeZone = el.scrollTop + el.clientHeight / 4 (both sides times 4)
InActiveZone(i, top) == 4 * (OffsetTop(i) + LineHeight) > 4 * top + ClientHeight

\* the last line taken whenever some line passes the test
FindIndexLast(n, top) ==
  IF \E i \in 0 .. n - 1 : InActiveZone(i, top) THEN n - 1 ELSE -1

\* lines.findIndex(...)
FindIndex(n, top) ==
  IF \E i \in 0 .. n - 1 : InActiveZone(i, top)
    THEN CHOOSE i \in 0 .. n - 1 :
           InActiveZone(i, top) /\ \A j \in 0 .. i - 1 : ~InActiveZone(j, top)
    ELSE -1

\* newCurrentIndex after the fallback to the last line
NewCurrentIndex(n, top) ==
  LET found == FindIndex(n, top) IN
  IF found = -1 /\ n > 0 THEN n - 1 ELSE found

\* the updater passed to setCurrentLineIndex by a tick
UpdateIndex(prevIndex, newCurrentIndex) ==
  IF newCurrentIndex # -1 /\ newCurrentIndex # prevIndex
    THEN newCurrentIndex ELSE prevIndex

\* the scroll effect returning no cleanup: an interval is never cleared
IntervalAfterNoCleanup(interval, depsChanged, scrolling, mounted) ==
  IF depsChanged /\ scrolling /\ mounted THEN "live"
  ELSE IF interval = "live" /\ ~mounted THEN "detached"
  ELSE interval

\* the interval after a render: the effect's cleanup and body run when a
\* dependency changed; otherwise the interval stays, holding the element it
\* captured, which is detached once the container is unmounted
IntervalAfter(interval, depsChanged, scrolling, mounted) ==
  IF depsChanged THEN (IF scrolling /\ mounted THEN "live" ELSE "none")
  ELSE IF interval = "live" /\ ~mounted THEN "detached"
  ELSE interval

\* a delay that falls faster with the speed
TickPeriodSteep(speed) == BasePeriod - speed * (PeriodStep + 3)

\* the delay passed to setInterval: 150 - scrollSpeed * 12
TickPeriod(speed) == BasePeriod - speed * PeriodStep

\* the delay of the interval after a render
PeriodAfter(period, depsChanged, scrolling, mounted, speed) ==
  IF depsChanged THEN (IF scrolling /\ mounted THEN TickPeriod(speed) ELSE 0)
  ELSE period

\* the scroll effect without its else branch
IndexAfterKept(index, depsChanged, scrolling, mounted) == index

\* currentLineIndex after a render: the effect's else branch clears it
IndexAfter(index, depsChanged, scrolling, mounted) ==
  IF depsChanged /\ ~(scrolling /\ mounted) THEN NoLine ELSE index

\* scrollTop after a render: a new container starts at 0, a kept one is
\* clamped to its content
TopAfter(top, wasMounted, mounted, text) ==
  IF mounted /\ wasMounted THEN Min(top, MaxScrollTop(text)) ELSE 0

\* The render that follows a handler, with the scroll effect: the handler
\* leaves lyrics, isScrolling, scrollSpeed, currentLineIndex, view and
\* isConfigError at the n.. values and the container's scrollTop at nTop.
Render(nLyrics, nScrolling, nSpeed, nIndex, nView, nCfgError, nTop) ==
  LET depsChanged == nScrolling # isScrolling \/ nSpeed # scrollSpeed
                       \/ nLyrics # lyrics
      wasMounted == Mounted(isConfigError, view, lyrics)
      mounted == Mounted(nCfgError, nView, nLyrics)
  IN /\ lyrics' = nLyrics
     /\ isScrolling' = nScrolling
     /\ scrollSpeed' = nSpeed
     /\ view' = nView
     /\ isConfigError' = nCfgError
     /\ scrollInterval' = IntervalAfter(scrollInterval, depsChanged, nScrolling, mounted)
     /\ intervalPeriod' = PeriodAfter(intervalPeriod, depsChanged, nScrolling, mounted,
                                     nSpeed)
     /\ currentLineIndex' = IndexAfter(nIndex, depsChanged, nScrolling, mounted)
     /\ scrollTop' = TopAfter(nTop, wasMounted, mounted, nLyrics)

\* a render in which the handler touched none of them
RenderSame ==
  Render(lyrics, isScrolling, scrollSpeed, currentLineIndex, view, isConfigError,
         scrollTop)

----------------------------------------------------------------------------
(* The lookup gateway's replies *)

EmptyQueryMsg == <<"EmptyQuery">>
NotFoundMsg(term) == <<"NotFound">> \o term
TransportMsg == <<"TransportError">>

\* the backquote character (written ~: a string of the module cannot hold one)
BQUOTE == "~"
Fence == <<BQUOTE, BQUOTE, BQUOTE, "j", "s", "o", "n">>
Fenced(body) == Fence \o <<NL>> \o body \o <<NL, BQUOTE, BQUOTE, BQUOTE>>

FoundBody(text) == <<"{">> \o StringifyMember("lyrics", text) \o <<"}">>
ErrorBody == <<"{">> \o StringifyMember("error", <<"e">>) \o <<"}">>
EmptyBody == <<"{", "}">>
\* {"lyrics":7} and {"lyrics":0}
NumberBody(d) == <<"{">> \o QuoteString(<<"lyrics">>) \o <<":", d>> \o <<"}">>
ProseBody == <<"x">>

\* response.text for a request about term
ResponseTexts(term) ==
  LET bodies == {FoundBody(l) : l \in LyricsFor(Trim(term)[1])}
                  \cup {ErrorBody, EmptyBody, ProseBody, <<"null">>}
                  \cup {NumberBody(d) : d \in Digits}
  IN bodies \cup {Fenced(b) : b \in bodies}

\* what generateContent settles with: a rejection, or a response with its
\* text and its grounding chunks (none when the metadata is missing)
Responses(term) ==
  {[ok |-> FALSE, text |-> <<>>, grounding |-> <<>>]}
    \cup {[ok |-> TRUE, text |-> t, grounding |-> g] :
            t \in ResponseTexts(term), g \in {<<>>, <<"src">>}}

\* resultText with the code fence left in place
ResultTextKeepsFence(text) == Trim(text)

\* resultText as handed to JSON.parse: trimmed, the code fence cut off
ResultText(text) ==
  LET trimmed == Trim(text) IN
  IF StartsWith(trimmed, Fence)
    THEN Trim(SubSeq(trimmed, 8, Len(trimmed) - 3))
    ELSE trimmed

\* what the continuation of handleSearch does with a response:
\* "lyrics" (setLyrics), "error" (setError) and the value set
Outcome(r, term) ==
  IF ~r.ok THEN [set |-> "error", value |-> TransportMsg]
  ELSE LET result == JSONParse(ResultText(r.text))
           err == Field(result.members, "error")
           lyr == Field(result.members, "lyrics")
       IN IF result.kind \in {"error", "null"}
            THEN [set |-> "error", value |-> TransportMsg]
          ELSE IF Truthy(err) \/ ~Truthy(lyr)
            THEN [set |-> "error", value |-> IF Truthy(err) THEN err ELSE NotFoundMsg(term)]
          ELSE [set |-> "lyrics", value |-> lyr]

\* the request at position i has been answered
Without(seq, i) == SubSeq(seq, 1, i - 1) \o SubSeq(seq, i + 1, Len(seq))

----------------------------------------------------------------------------
(* What the page offers *)

\* the search form rendered whatever isConfigError holds
FormShownDespiteConfigError == view = "search"

\* the search form is rendered
FormShown == ~isConfigError /\ view = "search"
\* the lyrics block, with its controls, is rendered
LyricsShown == FormShown /\ lyrics # <<>>
\* the favorites list is rendered
ListShown == ~isConfigError /\ view = "favorites"
\* the submit button without its disabled attribute
SubmitAlwaysEnabled(loading) == TRUE

\* the submit button: disabled={isLoading}
SubmitEnabled(loading) == ~loading

----------------------------------------------------------------------------
(* Initial state: the first render *)

Init ==
  /\ pc = "load"
  /\ apiKey \in BOOLEAN
  /\ storage \in BootEntries
  /\ queued = NothingQueued
  /\ searchTerm = <<>>
  /\ lyrics = <<>>
  /\ isLoading = FALSE
  /\ error = <<>>
  /\ initialState = TRUE
  /\ favorites = <<>>
  /\ view = "search"
  /\ sources = <<>>
  /\ isScrolling = FALSE
  /\ scrollSpeed = DefaultSpeed
  /\ currentLineIndex = NoLine
  /\ isConfigError = FALSE
  /\ scrollTop = 0
  /\ scrollInterval = "none"
  /\ intervalPeriod = 0
  /\ inFlight = <<>>

app == <<searchTerm, lyrics, isLoading, error, initialState, view, sources,
         isScrolling, scrollSpeed, currentLineIndex, scrollTop, scrollInterval,
         intervalPeriod,
         inFlight>>

----------------------------------------------------------------------------
(* Mounting: the effects of the first render, then the render they cause *)

\* the load effect
MountLoad ==
  /\ pc = "load"
  /\ queued' = LoadFavorites(storage)
  /\ pc' = "save"
  /\ UNCHANGED <<apiKey, storage, favorites, isConfigError, app>>

\* the save effect, with the favorites of the first render; the scroll
\* effect after it sets currentLineIndex to the -1 it already holds
MountSave ==
  /\ pc = "save"
  /\ storage' = SaveFavorites(favorites)
  /\ pc' = "render"
  /\ UNCHANGED <<apiKey, queued, favorites, isConfigError, app>>

\* the render with the updates the load effect queued; Favoritos
\* ({favorites.length}) throws when favorites is null
MountRender ==
  /\ pc = "render"
  /\ isConfigError' = ~apiKey
  /\ favorites' = IF queued.kind = "array" THEN queued.items ELSE favorites
  /\ pc' = CASE queued.kind = "null" -> "crashed"
             [] queued.kind = "array" -> "resave"
             [] queued.kind = "none" -> "ready"
  /\ queued' = NothingQueued
  /\ UNCHANGED <<apiKey, storage, app>>

\* the save effect again, favorites having changed
MountResave ==
  /\ pc = "resave"
  /\ storage' = SaveFavorites(favorites)
  /\ pc' = "ready"
  /\ UNCHANGED <<apiKey, queued, favorites, isConfigError, app>>

----------------------------------------------------------------------------
(* Events *)

\* onChange of the search input
SetSearchTerm(t) ==
  /\ pc = "ready" /\ FormShown
  /\ t # searchTerm
  /\ searchTerm' = t
  /\ UNCHANGED <<pc, apiKey, storage, queued, lyrics, isLoading, error,
                 initialState, favorites, view, sources, isScrolling, scrollSpeed,
                 currentLineIndex, isConfigError, scrollTop, scrollInterval,
                 intervalPeriod,
                 inFlight>>

\* handleSearch up to its await
HandleSearch ==
  /\ pc = "ready" /\ FormShown
  /\ SubmitEnabled(isLoading)
  /\ IF Trim(searchTerm) = <<>>
       THEN /\ error' = EmptyQueryMsg
            /\ UNCHANGED <<lyrics, isLoading, initialState, sources, isScrolling,
                           scrollSpeed, currentLineIndex, isConfigError, view,
                           scrollTop, scrollInterval, intervalPeriod, inFlight>>
       ELSE /\ error' = <<>>
            /\ sources' = <<>>
            /\ initialState' = FALSE
            /\ isLoading' = apiKey
            /\ inFlight' = IF apiKey THEN Append(inFlight, searchTerm) ELSE inFlight
            /\ Render(<<>>, FALSE, scrollSpeed, NoLine, view,
                      isConfigError \/ ~apiKey, 0)
  /\ UNCHANGED <<pc, apiKey, storage, queued, searchTerm, favorites>>

\* the setters the continuation calls for the outcome out, and the render
\* that follows
ApplyOutcome(i, r, out) ==
  /\ pc = "ready"
  /\ sources' = IF r.ok /\ r.grounding # <<>> THEN r.grounding ELSE sources
  /\ error' = IF out.set = "error" THEN out.value ELSE error
  /\ lyrics' = IF out.set = "lyrics" THEN out.value ELSE lyrics
  /\ Render(lyrics', isScrolling, scrollSpeed, currentLineIndex, view,
            isConfigError, scrollTop)
  /\ pc' = IF RenderCrashes(isConfigError, view, lyrics') THEN "crashed" ELSE pc
  /\ isLoading' = FALSE
  /\ inFlight' = Without(inFlight, i)
  /\ UNCHANGED <<apiKey, storage, queued, searchTerm, initialState, favorites>>

\* the continuation of handleSearch number i, generateContent having settled with r
Reply(i, r) == ApplyOutcome(i, r, Outcome(r, inFlight[i]))

\* the navigation buttons
SetView(v) ==
  /\ pc = "ready" /\ ~isConfigError
  /\ v # view
  /\ Render(lyrics, isScrolling, scrollSpeed, currentLineIndex, v, isConfigError,
            scrollTop)
  /\ pc' = IF RenderCrashes(isConfigError, v, lyrics) THEN "crashed" ELSE pc
  /\ UNCHANGED <<apiKey, storage, queued, searchTerm, isLoading, error,
                 initialState, favorites, sources, inFlight>>

\* toggleFavorite, from the button of the lyrics block
ToggleFavorite ==
  /\ pc = "ready" /\ LyricsShown
  /\ IsFavorite(favorites, searchTerm) \/ Len(favorites) < MaxFavorites
  /\ favorites' = ToggleFavoriteResult(favorites, searchTerm, lyrics)
  /\ storage' = SaveEffect(storage, searchTerm # <<>> /\ lyrics # <<>>, favorites')
  /\ UNCHANGED <<pc, apiKey, queued, isConfigError, app>>

\* removeFavorite, from the Remover button of item i of the list
RemoveFavorite(i) ==
  /\ pc = "ready" /\ ListShown
  /\ favorites' = RemoveFavoriteResult(favorites, favorites[i].term)
  /\ storage' = SaveEffect(storage, TRUE, favorites')
  /\ UNCHANGED <<pc, apiKey, queued, isConfigError, app>>

\* viewFavorite, from item i of the list
ViewFavorite(i) ==
  /\ pc = "ready" /\ ListShown
  /\ searchTerm' = favorites[i].term
  /\ error' = <<>>
  /\ sources' = <<>>
  /\ initialState' = FALSE
  /\ Render(favorites[i].lyrics, FALSE, scrollSpeed, NoLine, "search",
            isConfigError, IF Mounted(isConfigError, view, lyrics) THEN 0 ELSE scrollTop)
  /\ UNCHANGED <<pc, apiKey, storage, queued, isLoading, favorites, inFlight>>

\* toggleKaraoke without its check of lyrics
ToggleKaraokeAlways(text, scrolling) == ~scrolling

\* isScrolling after toggleKaraoke: if (!lyrics) return; setIsScrolling(!isScrolling)
ToggleKaraokeResult(text, scrolling) ==
  IF text = <<>> THEN scrolling ELSE ~scrolling

\* toggleKaraoke, from the play/pause button
ToggleKaraoke ==
  /\ pc = "ready" /\ LyricsShown
  /\ Render(lyrics, ToggleKaraokeResult(lyrics, isScrolling), scrollSpeed,
            currentLineIndex, view, isConfigError, scrollTop)
  /\ UNCHANGED <<pc, apiKey, storage, queued, searchTerm, isLoading, error,
                 initialState, favorites, sources, inFlight>>

\* onChange of the speed slider
SetScrollSpeed(s) ==
  /\ pc = "ready" /\ LyricsShown
  /\ s # scrollSpeed
  /\ Render(lyrics, isScrolling, s, currentLineIndex, view, isConfigError, scrollTop)
  /\ UNCHANGED <<pc, apiKey, storage, queued, searchTerm, isLoading, error,
                 initialState, favorites, sources, inFlight>>

\* el, the element the scroll effect captured: the mounted container, or a
\* detached one, which reports 0 for scrollTop, scrollHeight and clientHeight
\* and has no children
ElLive == scrollInterval = "live"
ElScrollTop == IF ElLive THEN scrollTop ELSE 0
ElScrollHeight == IF ElLive THEN ScrollHeight(lyrics) ELSE 0
ElClientHeight == IF ElLive THEN ClientHeight ELSE 0
ElLines == IF ElLive THEN LineCount(lyrics) ELSE 0

\* the interval's callback
Tick ==
  /\ pc = "ready"
  /\ scrollInterval # "none"
  /\ IF ~Mounted(isConfigError, view, lyrics)
       THEN RenderSame
     ELSE IF AtBoundary(ElScrollTop, ElScrollHeight, ElClientHeight)
       THEN Render(lyrics, FALSE, scrollSpeed, NoLine, view, isConfigError,
                   scrollTop)
     ELSE Render(lyrics, isScrolling, scrollSpeed,
                 UpdateIndex(currentLineIndex,
                             NewCurrentIndex(ElLines, ElScrollTop + 1)),
                 view, isConfigError, ElScrollTop + 1)
  /\ UNCHANGED <<pc, apiKey, storage, queued, searchTerm, isLoading, error,
                 initialState, favorites, sources, inFlight>>

Next ==
  \/ MountLoad
  \/ MountSave
  \/ MountRender
  \/ MountResave
  \/ \E t \in TermInputs : SetSearchTerm(t)
  \/ HandleSearch
  \/ \E i \in DOMAIN inFlight : \E r \in Responses(inFlight[i]) : Reply(i, r)
  \/ \E v \in {"search", "favorites"} : SetView(v)
  \/ ToggleFavorite
  \/ \E i \in DOMAIN favorites : RemoveFavorite(i)
  \/ \E i \in DOMAIN favorites : ViewFavorite(i)
  \/ ToggleKaraoke
  \/ \E s \in SpeedInputs : SetScrollSpeed(s)
  \/ Tick

Spec == Init /\ [][Next]_vars

\* the browser keeps calling the interval's callback while the interval exists
FairSpec == Spec /\ WF_vars(Tick)

----------------------------------------------------------------------------
(* Properties *)

\* a step is the continuation of some pending handleSearch
IsReply == \E i \in DOMAIN inFlight : \E r \in Responses(inFlight[i]) : Reply(i, r)

\* the user has left the search whose request is pending: the Favorites view
\* is shown, or lyrics, which handleSearch emptied, holds a favorite's text
NavigatedAway == view = "favorites" \/ lyrics # <<>>

\* C1: currentLineIndex is always none (-1) or an index into the lines of the
\* current lyrics, lyrics.split('\n').
C1_ActiveLineIsCurrent ==
  currentLineIndex = NoLine
    \/ (0 <= currentLineIndex /\ currentLineIndex < Len(Split(lyrics)))

\* C2: a reply that arrives after the user navigated away from its search
\* changes none of lyrics, error and sources.
C2_LateReplyDiscarded ==
  [][(IsReply /\ NavigatedAway)
       => (lyrics' = lyrics /\ error' = error /\ sources' = sources)]_vars

\* C3: every step that changes lyrics ends with the synchronizer stopped, the
\* scroll offset at zero and no active line.
C3_LyricsChangeResets ==
  [][lyrics' # lyrics
       => (~isScrolling' /\ scrollTop' = 0 /\ currentLineIndex' = NoLine)]_vars

\* a non-blank search is submitted, or a favorite is loaded
ContentReset ==
  \/ HandleSearch /\ Trim(searchTerm) # <<>>
  \/ \E i \in DOMAIN favorites : ViewFavorite(i)

\* C4: a non-blank search or a favorite load while Scrolling ends Idle, with
\* the offset at 0 and no active line, in that step; and whenever the
\* synchronizer is Idle no interval is left to tick, so offset and index stay
\* until toggleKaraoke starts it again.
C4_ResetStopsScrolling ==
  /\ [][(isScrolling /\ ContentReset)
          => (~isScrolling' /\ scrollTop' = 0 /\ currentLineIndex' = NoLine
                /\ scrollInterval' = "none")]_vars
  /\ [](~isScrolling => scrollInterval = "none")
  /\ [][(~isScrolling /\ ~isScrolling' /\ lyrics' = lyrics /\ view' = view)
          => (scrollTop' = scrollTop /\ currentLineIndex' = currentLineIndex)]_vars

\* C4 witness: the synchronizer is scrolling, has advanced and highlights a
\* line, and a non-blank search can be submitted.
C4_Witness ==
  /\ pc = "ready" /\ FormShown /\ ~isLoading /\ Trim(searchTerm) # <<>>
  /\ isScrolling /\ scrollInterval = "live"
  /\ scrollTop > 0 /\ currentLineIndex # NoLine

\* the reply is NotFound: an object with an error field or without a lyrics field
IsNotFound(r) ==
  /\ r.ok
  /\ LET result == JSONParse(ResultText(r.text)) IN
       /\ result.kind = "object"
       /\ HasField(result.members, "error") \/ ~HasField(result.members, "lyrics")

\* C5: after a NotFound reply is applied, an error message is set and lyrics
\* is empty.
C5_NotFoundShowsNoLyrics ==
  [][(\E i \in DOMAIN inFlight : \E r \in Responses(inFlight[i]) :
        Reply(i, r) /\ IsNotFound(r))
       => (error' # <<>> /\ lyrics' = <<>>)]_vars

\* C6: at most one request is in flight, and while one is, isLoading is true
\* (the submit button is disabled).
C6_OneRequestInFlight ==
  Len(inFlight) <= 1 /\ (inFlight # <<>> => isLoading)

\* C6 witness: a request is pending while the user has gone to the Favorites
\* view and come back with a favorite loaded.
C6_Witness ==
  inFlight # <<>> /\ isLoading /\ view = "search" /\ lyrics # <<>>

\* C7: a tick that reaches the boundary test with
\* scrollTop >= scrollHeight - clientHeight leaves the offset where it is,
\* stops the synchronizer and clears the active line, whatever the speed.
C7_TickAtBoundaryStops ==
  [][(Tick /\ Mounted(isConfigError, view, lyrics)
        /\ scrollSpeed \in MinSpeed .. MaxSpeed
        /\ ElScrollTop >= ElScrollHeight - ElClientHeight)
       => (scrollTop' = scrollTop /\ ~isScrolling'
             /\ currentLineIndex' = NoLine)]_vars

\* C7 witness: the interval is running on the mounted container, which has
\* been scrolled to its end, at a speed other than the default.
C7_Witness ==
  /\ pc = "ready" /\ scrollInterval = "live" /\ isScrolling
  /\ Mounted(isConfigError, view, lyrics)
  /\ scrollTop > 0 /\ scrollTop >= ScrollHeight(lyrics) - ClientHeight
  /\ scrollSpeed # DefaultSpeed

\* the active line is the one a tick computes for the current text and offset
IndexFromTick ==
  currentLineIndex = NewCurrentIndex(Len(Split(lyrics)), scrollTop)

ToggledTwice ==
  ToggleFavoriteResult(ToggleFavoriteResult(favorites, searchTerm, lyrics),
                       searchTerm, lyrics)

\* removeFavorite of a term that is not in the collection changes nothing
RemoveAbsentIsNoOp ==
  \A t \in TermInputs :
    ~(\E i \in DOMAIN favorites : favorites[i].term = t)
      => RemoveFavoriteResult(favorites, t) = favorites

\* every favorite stored under the displayed term holds the displayed lyrics
StoredAsDisplayed ==
  \A i \in DOMAIN favorites :
    favorites[i].term = searchTerm => favorites[i].lyrics = lyrics

\* C9 as stated: for every collection and every displayed term with lyrics,
\* toggling twice gives the original set of pairs, and removing an absent
\* term changes nothing.
C9_ToggleTwiceRestores ==
  /\ (searchTerm # <<>> /\ lyrics # <<>>) => Pairs(ToggledTwice) = Pairs(favorites)
  /\ RemoveAbsentIsNoOp

\* C9 amended: toggling twice gives the original set of pairs when every
\* favorite stored under the displayed term holds the displayed lyrics (so
\* also when the term is not a favorite), and removing an absent term changes
\* nothing.
C9_ToggleTwiceRestoresSameLyrics ==
  /\ (searchTerm # <<>> /\ lyrics # <<>> /\ StoredAsDisplayed)
       => Pairs(ToggledTwice) = Pairs(favorites)
  /\ RemoveAbsentIsNoOp

\* C9 witness: the displayed term has been added with the displayed lyrics,
\* and another term is not in the collection.
C9_Witness ==
  /\ pc = "ready" /\ LyricsShown /\ searchTerm # <<>>
  /\ \E i \in DOMAIN favorites :
       favorites[i].term = searchTerm /\ favorites[i].lyrics = lyrics
  /\ StoredAsDisplayed
  /\ \E t \in TermInputs : t # <<>> /\ ~IsFavorite(favorites, t)

WellFormedList(entry) ==
  /\ entry.exists
  /\ JSONParse(entry.text).kind = "array"

\* favorites is a sequence of Favorite records
ValidFavorites ==
  \A i \in DOMAIN favorites : DOMAIN favorites[i] = {"term", "lyrics"}

\* C11: whatever the persisted entry holds, loading at startup does not crash
\* the application, favorites is a sequence of Favorite records, and the load
\* effect queues no collection when the entry is not a well-formed list.
C11_LoadNeverCrashes ==
  /\ pc # "crashed"
  /\ ValidFavorites
  /\ (pc = "save" /\ ~WellFormedList(storage)) => queued = NothingQueued

\* a step of the search form or of the navigation buttons
FormOrNavigation ==
  \/ HandleSearch
  \/ \E t \in TermInputs : SetSearchTerm(t)
  \/ \E v \in {"search", "favorites"} : SetView(v)

\* C12: with the credential absent, isConfigError is set once the mount
\* effect's update is rendered and is never cleared; while it is set no step
\* of the search form or of the navigation buttons happens; and no request is
\* ever in flight.
C12_ConfigErrorPersists ==
  /\ []((~apiKey /\ pc \in {"resave", "ready"}) => isConfigError)
  /\ [][isConfigError => isConfigError']_vars
  /\ [][isConfigError => ~FormOrNavigation]_vars
  /\ [](~apiKey => (inFlight = <<>> /\ ~isLoading))

\* C12 witness: mounted without a credential, the stored favorites loaded.
C12_Witness ==
  ~apiKey /\ pc = "ready" /\ isConfigError /\ favorites # <<>>

\* the term is empty or holds whitespace only
Blank(term) == \A i \in DOMAIN term : term[i] \in Whitespace

\* C13: submitting an empty or whitespace-only term sets the EmptyQuery
\* message, issues no request, and leaves lyrics, sources, isLoading,
\* favorites, isScrolling, the scroll offset and the active line unchanged.
C13_BlankSearchRejected ==
  [][(HandleSearch /\ Blank(searchTerm))
       => (/\ error' = EmptyQueryMsg
           /\ inFlight' = inFlight
           /\ UNCHANGED <<lyrics, sources, isLoading, favorites, isScrolling,
                          scrollTop, currentLineIndex, scrollInterval>>)]_vars

\* C13 witness: a whitespace-only term has been submitted, and rejected, while
\* lyrics were scrolling with a line highlighted.
C13_Witness ==
  /\ pc = "ready" /\ FormShown /\ ~isLoading
  /\ searchTerm # <<>> /\ Blank(searchTerm)
  /\ error = EmptyQueryMsg
  /\ isScrolling /\ scrollTop > 0 /\ currentLineIndex # NoLine

\* C14: toggleKaraoke with no lyrics leaves isScrolling as it is; isScrolling
\* goes from false to true only in a toggleKaraoke step taken with lyrics; and
\* isScrolling implies that lyrics is non-empty.
C14_ScrollingNeedsLyrics ==
  /\ [](\A scrolling \in BOOLEAN : ToggleKaraokeResult(<<>>, scrolling) = scrolling)
  /\ [][(~isScrolling /\ isScrolling') => (ToggleKaraoke /\ lyrics # <<>>)]_vars
  /\ [](isScrolling => lyrics # <<>>)

\* C14 witness: the synchronizer has been started and stopped again over
\* lyrics, then started once more.
C14_Witness ==
  /\ pc = "ready" /\ LyricsShown /\ isScrolling /\ scrollInterval = "live"
  /\ scrollTop > 0 /\ currentLineIndex = NoLine

\* no two favorites have the same term
UniqueTerms(favs) ==
  \A i, j \in DOMAIN favs : favs[i].term = favs[j].term => i = j

\* every favorite has a non-empty term and non-empty lyrics
NonEmptyFields(favs) ==
  \A i \in DOMAIN favs : favs[i].term # <<>> /\ favs[i].lyrics # <<>>

\* C15: when the collection in memory, and the one the load effect queued from
\* the persisted entry, have unique terms and non-empty fields, every step
\* leaves a collection with unique terms and non-empty fields.
C15_TermsStayUnique ==
  [][(/\ UniqueTerms(favorites) /\ NonEmptyFields(favorites)
      /\ UniqueTerms(queued.items) /\ NonEmptyFields(queued.items))
       => (UniqueTerms(favorites') /\ NonEmptyFields(favorites'))]_vars

\* C15 witness: two favorites with different terms, one of them added from
\* the page.
C15_Witness ==
  /\ pc = "ready" /\ Len(favorites) = 2
  /\ UniqueTerms(favorites) /\ NonEmptyFields(favorites)
  /\ \E i \in DOMAIN favorites :
       favorites[i].term = <<" ">> /\ Len(Split(favorites[i].lyrics)) > 1

\* the reply is Found: an object whose lyrics field is a non-empty string and
\* which has no error field
IsFound(r) ==
  /\ r.ok
  /\ LET result == JSONParse(ResultText(r.text)) IN
       /\ result.kind = "object"
       /\ ~HasField(result.members, "error")
       /\ HasField(result.members, "lyrics")
       /\ IsText(Field(result.members, "lyrics"))
       /\ Field(result.members, "lyrics") # <<>>

\* C16: every reply, of whatever kind, is followed by isLoading false and
\* leaves the application running, and every reply that is not Found is
\* followed by a non-empty error message.
C16_ReplyClearsLoading ==
  [][\A i \in DOMAIN inFlight : \A r \in Responses(inFlight[i]) :
       Reply(i, r) =>
         /\ ~isLoading'
         /\ pc' # "crashed"
         /\ ~IsFound(r) => error' # <<>>]_vars

\* the response text carries the lyrics text given, bare or inside a fence
Carries(text, lyr) == text \in {FoundBody(lyr), Fenced(FoundBody(lyr))}

\* C17: a Found reply with a text of n lines, arriving while its search is
\* still the one displayed, leaves exactly those n lines rendered in order,
\* isLoading false, no error message, and the lyrics block (with the favorite
\* toggle) shown.
C17_FoundRendersLines ==
  [][\A i \in DOMAIN inFlight : \A r \in Responses(inFlight[i]) :
     \A song \in Songs : \A n \in 1 .. MaxLines :
       (~NavigatedAway /\ r.ok /\ Carries(r.text, Repeat(song, n)) /\ Reply(i, r))
         => /\ Split(lyrics') = [k \in 1 .. n |-> <<song>>]
            /\ ~isLoading'
            /\ error' = <<>>
            /\ pc' = "ready" /\ LyricsShown']_vars

\* C17 witness: a Found reply with sources has been applied to the search
\* view: its lines are shown, nothing is pending, no error is displayed.
C17_Witness ==
  /\ pc = "ready" /\ LyricsShown /\ sources # <<>>
  /\ Len(Split(lyrics)) = MaxLines
  /\ ~isLoading /\ inFlight = <<>> /\ error = <<>>

\* C18: scrollSpeed is an integer in 1..10; for every speed in that range the
\* interval's delay is positive, and strictly smaller for a larger speed; a
\* running interval has the delay of the current speed.
C18_PeriodPositiveDecreasing ==
  /\ scrollSpeed \in MinSpeed .. MaxSpeed
  /\ \A s \in MinSpeed .. MaxSpeed : TickPeriod(s) > 0
  /\ \A s, t \in MinSpeed .. MaxSpeed : s < t => TickPeriod(t) < TickPeriod(s)
  /\ scrollInterval # "none"
       => (intervalPeriod = TickPeriod(scrollSpeed) /\ intervalPeriod > 0)

\* C18 witness: the interval runs at the largest speed, with the shortest delay.
C18_Witness ==
  /\ pc = "ready" /\ scrollInterval = "live" /\ scrollSpeed = MaxSpeed
  /\ intervalPeriod = BasePeriod - MaxSpeed * PeriodStep
  /\ scrollTop > 0

\* the synchronizer is deactivated by the user's toggle or by a tick
Deactivation ==
  isScrolling /\ ~isScrolling' /\ (ToggleKaraoke \/ Tick)

\* C19: a deactivation by toggleKaraoke or by a tick at the boundary clears
\* the interval and the active line and leaves the offset where it is; while
\* the synchronizer is Idle no interval exists, no tick happens and the active
\* line is none.
C19_NoTickAfterStop ==
  /\ [][Deactivation
          => (scrollInterval' = "none" /\ currentLineIndex' = NoLine
                /\ scrollTop' = scrollTop)]_vars
  /\ [][~isScrolling => ~Tick]_vars
  /\ [](~isScrolling => (scrollInterval = "none" /\ currentLineIndex = NoLine))

\* C19 witness: the synchronizer has been stopped with the container scrolled
\* part of the way, no interval left.
C19_Witness ==
  /\ pc = "ready" /\ LyricsShown /\ ~isScrolling /\ scrollInterval = "none"
  /\ scrollTop > 0 /\ scrollTop < ScrollHeight(lyrics) - ClientHeight
  /\ currentLineIndex = NoLine

\* c is the first line whose bottom is past the active zone at offset top, or
\* the last line when there is none
IsCandidate(c, n, top) ==
  LET past(i) == 4 * (i * LineHeight + LineHeight) > 4 * top + ClientHeight IN
  IF \E i \in 0 .. n - 1 : past(i)
    THEN c \in 0 .. n - 1 /\ past(c) /\ \A j \in 0 .. c - 1 : ~past(j)
    ELSE c = n - 1

\* the tick runs on the mounted container below the boundary
TickBelowBoundary ==
  /\ Tick /\ scrollInterval = "live" /\ Mounted(isConfigError, view, lyrics)
  /\ scrollTop < ScrollHeight(lyrics) - ClientHeight

\* C20: a tick below the boundary adds one to the offset; with c the first
\* line whose bottom is past the new offset plus a quarter of the visible
\* height (the last line when there is none), the active line becomes c when
\* c differs from it and stays otherwise.
C20_TickAdvancesAndSelects ==
  [][TickBelowBoundary
       => /\ scrollTop' = scrollTop + 1
          /\ \A c \in -1 .. MaxLines :
               IsCandidate(c, Len(Split(lyrics)), scrollTop + 1)
                 => currentLineIndex' =
                      (IF c # -1 /\ c # currentLineIndex THEN c ELSE currentLineIndex)
          /\ \E c \in 0 .. MaxLines :
               IsCandidate(c, Len(Split(lyrics)), scrollTop + 1)]_vars

\* C20 witness: ticks have advanced the offset and the next one moves the
\* active line to another line.
C20_Witness ==
  /\ pc = "ready" /\ isScrolling /\ scrollInterval = "live"
  /\ Mounted(isConfigError, view, lyrics)
  /\ scrollTop > 0 /\ scrollTop < ScrollHeight(lyrics) - ClientHeight
  /\ currentLineIndex # NoLine
  /\ ~IsCandidate(currentLineIndex, Len(Split(lyrics)), scrollTop + 1)

\* the tick finds the displayed container scrolled to its end
TickAtBoundary ==
  /\ Tick /\ Mounted(isConfigError, view, lyrics)
  /\ scrollTop >= ScrollHeight(lyrics) - ClientHeight

\* an event that is neither the toggle, nor a tick, nor a content reset, nor
\* a reply
OtherEvent ==
  \/ \E sp \in SpeedInputs : SetScrollSpeed(sp)
  \/ ToggleFavorite
  \/ \E i \in DOMAIN favorites : RemoveFavorite(i)
  \/ \E t \in TermInputs : SetSearchTerm(t)
  \/ \E v \in {"search", "favorites"} : SetView(v)

\* the interval's next callback will pass the boundary test and stop the
\* synchronizer
TickStops ==
  /\ pc = "ready" /\ isScrolling /\ scrollInterval # "none"
  /\ Mounted(isConfigError, view, lyrics)
  /\ AtBoundary(ElScrollTop, ElScrollHeight, ElClientHeight)

\* C21: isScrolling turns false only in a toggleKaraoke step, in a tick that
\* finds the displayed container at its boundary, or in a content reset, and
\* a tick stops the synchronizer only with the displayed container at its
\* boundary; a
\* speed change, a favorite toggled or removed, an edit of the input and a
\* switch of view leave isScrolling as it is; and a speed change while
\* scrolling leaves the offset and the active line as they are.
C21_ScrollingLeftOnlyByStop ==
  /\ [][(isScrolling /\ ~isScrolling')
          => (ToggleKaraoke \/ TickAtBoundary \/ ContentReset)]_vars
  /\ [](TickStops => scrollTop >= ScrollHeight(lyrics) - ClientHeight)
  /\ [][OtherEvent => isScrolling' = isScrolling]_vars
  /\ [][(isScrolling /\ \E sp \in SpeedInputs : SetScrollSpeed(sp))
          => (scrollTop' = scrollTop /\ currentLineIndex' = currentLineIndex)]_vars

\* the pairs a persisted entry can hold when the page is opened
PersistedPairs == UNION {Pairs(LoadFavorites(e).items) : e \in BootEntries}

\* the lyrics of the pair are a text the lookup returns for its term
ObtainedByLookup(f) ==
  \E song \in Songs : Trim(f.term) = <<song>> /\ f.lyrics \in LyricsFor(song)

\* C22: every favorite in memory pairs a term with lyrics obtained for that
\* term: a text the lookup returns for it, or the lyrics of a persisted
\* favorite of that term.
C22_FavoritePairsOwnLyrics ==
  \A i \in DOMAIN favorites :
    ObtainedByLookup(favorites[i]) \/ favorites[i] \in PersistedPairs

\* the persisted entry decodes to the collection favs
DecodesTo(entry, favs) ==
  /\ entry.exists
  /\ JSONParse(entry.text).kind = "array"
  /\ ToFavorites(JSONParse(entry.text).items) = favs

\* C23: at every step of the mount sequence a well-formed persisted list
\* still decodes to the favorites it held before startup: those the load
\* effect queued, until they are rendered, and those in memory afterwards.
C23_StartupKeepsStoredList ==
  /\ (pc \in {"save", "render"} /\ queued.kind = "array")
       => DecodesTo(storage, queued.items)
  /\ pc = "resave" => DecodesTo(storage, favorites)

\* C24: whenever the synchronizer is Scrolling, with the interval's callback
\* called as long as the interval exists and whatever the user does or does
\* not do, it is eventually Idle with no active line.
C24_ScrollingEventuallyIdle ==
  isScrolling ~> (~isScrolling /\ currentLineIndex = NoLine)

====
